---- MODULE Spec2Model ----
(***************************************************************************)
(* Model of the xk6-subcommand-explore extension: version resolution       *)
(* (findLatest), the catalog fetch (getExtensionCatalog), the filters      *)
(* (filterExtensions and the filter methods of kind and tier), the sorter  *)
(* (sortExtensions), the kind and tier options (Set, String), the table    *)
(* renderer (outputTable) and the explore command itself (flag parsing and *)
(* run).                                                                   *)
(*                                                                         *)
(* A Go string that the program parses or orders is a sequence of          *)
(* one-character strings, so that parsing and byte-wise comparison are     *)
(* computed and not assumed; strings it only compares for equality or      *)
(* passes on (map keys, option values, URLs, status texts) are atoms.      *)
(***************************************************************************)
EXTENDS Integers, Sequences, FiniteSets, TLC

VARIABLES
    versions,   \* findLatest: the argument
    latestRet,  \* findLatest: the call's state and returned string
    pc,         \* getExtensionCatalog: where the call is
    ctx,        \* the caller's context: "live" or "cancelled"
    url,        \* the url argument
    elapsed,    \* seconds since client.Do started the exchange
    resp,       \* the response client.Do returned (status line), or NoResp
    body,       \* the response body the decoder has read, or NoBody
    decoded,    \* whether Decode has been called
    catalog,    \* the local variable catalog
    todo,       \* keys the annotation loop has still to visit
    ret,        \* what the call returned
    fCatalog,   \* filterExtensions: the catalog argument
    fKind,      \* filterExtensions: the kind argument
    fTier,      \* filterExtensions: the tier argument
    fState,     \* filterExtensions: "pending", "done" or "panicked"
    filtered,   \* filterExtensions: the returned slice, as catalog keys
    kRecv,      \* kind.filter: the receiver
    kExt,       \* kind.filter: the argument
    kRet,       \* kind.filter: the call's state and result
    sIn,        \* sortExtensions: the slice as first given
    sList,      \* sortExtensions: the slice, sorted in place
    sFirst,     \* sortExtensions: the slice as the first call left it
    sCalls,     \* sortExtensions: the number of calls made on the slice
    oKind,      \* the kind option (the value behind the --type flag)
    oTier,      \* the tier option (the value behind the --tier flag)
    oLast,      \* the last Set call: its receiver, argument and result
    oCalls,     \* the number of Set calls made
    tExts,      \* outputTable: the extensions argument
    tBrief,     \* outputTable: the brief argument
    tNotrunc,   \* outputTable: the notrunc argument
    tWidth,     \* what getTerminalWidth returns
    tLines,     \* outputTable: the lines written, each a list of cells
    tState,     \* outputTable: "pending" or "done"
    args,       \* the command: the flags still to be parsed
    invalidSeen,\* the command: a flag value outside the allowed ones was given
    opts,       \* the command: the options struct
    rPc,        \* the command: where the invocation is
    fetches,    \* the command: the calls of getDefaultExtensionCatalog so far
    rendered,   \* the command: the renderer called and the list handed to it
    rErr        \* the command: the error returned to the command boundary

latestVars == <<versions, latestRet>>
fetchVars == <<pc, ctx, url, elapsed, resp, body, decoded, catalog, todo, ret>>
filterVars == <<fCatalog, fKind, fTier, fState, filtered>>
kindVars == <<kRecv, kExt, kRet>>
sortVars == <<sIn, sList, sFirst, sCalls>>
optionVars == <<oKind, oTier, oLast, oCalls>>
tableVars == <<tExts, tBrief, tNotrunc, tWidth, tLines, tState>>
runVars == <<args, invalidSeen, opts, rPc, fetches, rendered, rErr>>
vars == <<latestVars, fetchVars, filterVars, kindVars, sortVars, optionVars,
          tableVars, runVars>>

----------------------------------------------------------------------------
(* Strings *)

EmptyStr == <<>>

Digits == {"0", "1", "2", "3", "4", "5", "6", "7", "8", "9"}

\* The characters the model's strings use, in ascending byte order.
Alphabet ==
    <<"+", "-", ".", "/", "0", "1", "2", "3", "4", "5", "6", "7", "8", "9",
      "J", "O", "S",
      "a", "b", "c", "d", "e", "f", "g", "i", "k", "l", "m", "n", "o", "p",
      "r", "t", "u", "v", "x", "y">>

Ord(c) == CHOOSE i \in 1..Len(Alphabet) : Alphabet[i] = c

IdentChars == {Alphabet[i] : i \in 1..Len(Alphabet)} \ {"+", ".", "/"}

DigitVal(c) == Ord(c) - Ord("0")

\* Go's string comparison a < b: byte-wise lexicographic.
RECURSIVE StrLess(_, _)
StrLess(a, b) ==
    IF b = <<>> THEN FALSE
    ELSE IF a = <<>> THEN TRUE
    ELSE IF Head(a) # Head(b) THEN Ord(Head(a)) < Ord(Head(b))
    ELSE StrLess(Tail(a), Tail(b))

\* The least index of character c in s, 0 when there is none.
IndexOf(s, c) ==
    IF \E i \in 1..Len(s) : s[i] = c
    THEN CHOOSE i \in 1..Len(s) : s[i] = c /\ \A j \in 1..(i - 1) : s[j] # c
    ELSE 0

\* strings.Split(s, c) for a one-character separator.
RECURSIVE Split(_, _)
Split(s, c) ==
    LET i == IndexOf(s, c)
    IN IF i = 0 THEN <<s>>
       ELSE <<SubSeq(s, 1, i - 1)>> \o Split(SubSeq(s, i + 1, Len(s)), c)

AllDigits(s) == Len(s) > 0 /\ \A i \in 1..Len(s) : s[i] \in Digits

IsIdent(s) == Len(s) > 0 /\ \A i \in 1..Len(s) : s[i] \in IdentChars

\* strconv.ParseUint(s, 10, 64) of a digit string.
RECURSIVE ToNat(_)
ToNat(s) ==
    IF s = <<>> THEN 0
    ELSE ToNat(SubSeq(s, 1, Len(s) - 1)) * 10 + DigitVal(s[Len(s)])

----------------------------------------------------------------------------
(* github.com/Masterminds/semver/v3, as findLatest uses it *)

\* The result of a failed parse (NewVersion's error).
BadVersion ==
    [ok |-> FALSE, major |-> 0, minor |-> 0, patch |-> 0,
     pre |-> EmptyStr, metadata |-> EmptyStr, original |-> EmptyStr]

\* semver.NewVersion(s): the anchored pattern
\*   [v] num [. num [. num]] [- ident {. ident}] [+ ident {. ident}]
\* Missing minor and patch are 0; the string given is kept as original.
\* (Numbers with leading zeros, which releases of the library treat
\* differently, are not among the strings used here.)
NewVersion(s) ==
    LET t       == IF Len(s) > 0 /\ s[1] = "v" THEN Tail(s) ELSE s
        plus    == IndexOf(t, "+")
        head    == IF plus = 0 THEN t ELSE SubSeq(t, 1, plus - 1)
        meta    == IF plus = 0 THEN EmptyStr ELSE SubSeq(t, plus + 1, Len(t))
        dash    == IndexOf(head, "-")
        core    == IF dash = 0 THEN head ELSE SubSeq(head, 1, dash - 1)
        pre     == IF dash = 0 THEN EmptyStr ELSE SubSeq(head, dash + 1, Len(head))
        nums    == Split(core, ".")
        idents(x) == \A i \in 1..Len(Split(x, ".")) : IsIdent(Split(x, ".")[i])
        ok      == /\ Len(nums) \in 1..3
                   /\ \A i \in 1..Len(nums) : AllDigits(nums[i])
                   /\ (dash # 0 => idents(pre))
                   /\ (plus # 0 => idents(meta))
    IN IF ~ok THEN BadVersion
       ELSE [ok |-> TRUE,
             major |-> ToNat(nums[1]),
             minor |-> IF Len(nums) >= 2 THEN ToNat(nums[2]) ELSE 0,
             patch |-> IF Len(nums) >= 3 THEN ToNat(nums[3]) ELSE 0,
             pre |-> pre, metadata |-> meta, original |-> s]

\* Version.Original()
Original(v) == v.original

CompareInt(a, b) == IF a < b THEN -1 ELSE IF a > b THEN 1 ELSE 0

\* comparePrePart: one dot-separated prerelease identifier against another;
\* the empty string stands for an identifier that is missing.
ComparePrePart(s, o) ==
    IF s = o THEN 0
    ELSE IF s = EmptyStr THEN -1
    ELSE IF o = EmptyStr THEN 1
    ELSE IF AllDigits(s) /\ AllDigits(o) THEN CompareInt(ToNat(s), ToNat(o))
    ELSE IF AllDigits(s) THEN -1
    ELSE IF AllDigits(o) THEN 1
    ELSE IF StrLess(o, s) THEN 1 ELSE -1

\* comparePrerelease: identifier by identifier, the first difference decides.
RECURSIVE ComparePreParts(_, _)
ComparePreParts(sp, op) ==
    IF sp = <<>> /\ op = <<>> THEN 0
    ELSE LET s == IF sp = <<>> THEN EmptyStr ELSE Head(sp)
             o == IF op = <<>> THEN EmptyStr ELSE Head(op)
             d == ComparePrePart(s, o)
         IN IF d # 0 THEN d
            ELSE ComparePreParts(IF sp = <<>> THEN sp ELSE Tail(sp),
                                 IF op = <<>> THEN op ELSE Tail(op))

\* Version.Compare: major, minor, patch, then the prerelease (a release is
\* greater than its prereleases); build metadata takes no part.
Compare(v, o) ==
    IF v.major # o.major THEN CompareInt(v.major, o.major)
    ELSE IF v.minor # o.minor THEN CompareInt(v.minor, o.minor)
    ELSE IF v.patch # o.patch THEN CompareInt(v.patch, o.patch)
    ELSE IF v.pre = EmptyStr /\ o.pre = EmptyStr THEN 0
    ELSE IF v.pre = EmptyStr THEN 1
    ELSE IF o.pre = EmptyStr THEN -1
    ELSE ComparePreParts(Split(v.pre, "."), Split(o.pre, "."))

\* Version.GreaterThan
GreaterThan(v, o) == Compare(v, o) > 0

----------------------------------------------------------------------------
(* findLatest *)

\* The loop of findLatest over versions[1:], latest being the candidate.
RECURSIVE LatestLoop(_, _)
LatestLoop(rest, latest) ==
    IF rest = <<>> THEN latest
    ELSE LET ver == NewVersion(Head(rest))
         IN IF ~ver.ok THEN LatestLoop(Tail(rest), latest)
            ELSE IF GreaterThan(ver, latest) THEN LatestLoop(Tail(rest), ver)
            ELSE LatestLoop(Tail(rest), latest)

\* Variants of findLatest with a slip in them.
RECURSIVE LatestLoop_lastTie(_, _)
LatestLoop_lastTie(rest, latest) ==
    IF rest = <<>> THEN latest
    ELSE LET ver == NewVersion(Head(rest))
         IN IF ~ver.ok THEN LatestLoop_lastTie(Tail(rest), latest)
            ELSE IF ~GreaterThan(latest, ver) THEN LatestLoop_lastTie(Tail(rest), ver)
            ELSE LatestLoop_lastTie(Tail(rest), latest)

findLatest_lastTie(vs) ==
    IF Len(vs) = 0 THEN EmptyStr
    ELSE LET latest == NewVersion(vs[1])
         IN IF ~latest.ok THEN EmptyStr
            ELSE Original(LatestLoop_lastTie(Tail(vs), latest))

RECURSIVE findLatest_skipFirst(_)
findLatest_skipFirst(vs) ==
    IF Len(vs) = 0 THEN EmptyStr
    ELSE LET latest == NewVersion(vs[1])
         IN IF ~latest.ok THEN findLatest_skipFirst(Tail(vs))
            ELSE Original(LatestLoop(Tail(vs), latest))

findLatest(vs) ==
    IF Len(vs) = 0 THEN EmptyStr
    ELSE LET latest == NewVersion(vs[1])
         IN IF ~latest.ok THEN EmptyStr
            ELSE Original(LatestLoop(Tail(vs), latest))

----------------------------------------------------------------------------
(* Version strings the registry may supply *)

V_0_4_4      == <<"v", "0", ".", "4", ".", "4">>
V_0_4_10     == <<"v", "0", ".", "4", ".", "1", "0">>
V_0_5_0_beta == <<"v", "0", ".", "5", ".", "0", "-", "b", "e", "t", "a">>
V_0_5_0_b1   == <<"v", "0", ".", "5", ".", "0", "-", "b", "e", "t", "a", ".", "1">>
V_1_0_0      == <<"v", "1", ".", "0", ".", "0">>
V_1_0_0_bare == <<"1", ".", "0", ".", "0">>
V_1_0        == <<"v", "1", ".", "0">>
V_invalid    == <<"i", "n", "v", "a", "l", "i", "d">>

VersionPool ==
    {V_0_4_4, V_0_4_10, V_0_5_0_beta, V_0_5_0_b1, V_1_0_0, V_1_0_0_bare, V_1_0,
     V_invalid}

MaxVersions == 3

SeqsUpTo(S, n) == UNION {[1..k -> S] : k \in 0..n}

----------------------------------------------------------------------------
(* The extension struct and the catalog *)

\* A *extension: a pointer that is nil, or the fields of the struct it points to.
MkExt(module, tier, description, latest, vs, imports, outputs, subcommands) ==
    [nil |-> FALSE, module |-> module, tier |-> tier, description |-> description,
     latest |-> latest, versions |-> vs, imports |-> imports, outputs |-> outputs,
     subcommands |-> subcommands]

NilExt ==
    [nil |-> TRUE, module |-> EmptyStr, tier |-> EmptyStr, description |-> EmptyStr,
     latest |-> EmptyStr, versions |-> <<>>, imports |-> <<>>, outputs |-> <<>>,
     subcommands |-> <<>>]

\* A map[string]*extension: the nil map, or a map m from keys to pointers.
NilMap == [nil |-> TRUE, m |-> <<>>]
MkMap(m) == [nil |-> FALSE, m |-> m]

\* The keys a catalog may use.
KeyNames == <<"k6", "a", "b", "c">>
KeysUpTo(n) == {KeyNames[i] : i \in 1..n}

\* All maps from a subset of keys K to values in S.
MapsOver(K, S) == UNION {[D -> S] : D \in SUBSET K}

M_x == <<"x">>
V_9_9_9 == <<"v", "9", ".", "9", ".", "9">>

\* The strings ext.Tier is compared with, and other values a registry may send.
S_official == <<"o", "f", "f", "i", "c", "i", "a", "l">>
S_community == <<"c", "o", "m", "m", "u", "n", "i", "t", "y">>
S_partner == <<"p", "a", "r", "t", "n", "e", "r">>

\* "go.k6.io/k6"
M_self == <<"g", "o", ".", "k", "6", ".", "i", "o", "/", "k", "6">>

S_a == <<"a">>

----------------------------------------------------------------------------
(* The registry's response *)

ExtFields ==
    {"module", "tier", "description", "latest", "versions", "imports", "outputs",
     "subcommands"}

\* A value of the response's JSON object: null, or an object that has some of
\* the fields; a field in mistyped carries a JSON value of the wrong type.
JNull == [null |-> TRUE, has |-> {}, mistyped |-> {}, val |-> NilExt]
JObject(has, mistyped, val) ==
    [null |-> FALSE, has |-> has, mistyped |-> mistyped, val |-> val]

\* encoding/json on one value of the object: null gives a nil pointer; an object
\* gives a struct whose absent and mistyped fields keep their zero value.
DecodeExt(w) ==
    IF w.null THEN NilExt
    ELSE LET got(f) == f \in w.has /\ f \notin w.mistyped
         IN MkExt(IF got("module") THEN w.val.module ELSE EmptyStr,
                  IF got("tier") THEN w.val.tier ELSE EmptyStr,
                  IF got("description") THEN w.val.description ELSE EmptyStr,
                  IF got("latest") THEN w.val.latest ELSE EmptyStr,
                  IF got("versions") THEN w.val.versions ELSE <<>>,
                  IF got("imports") THEN w.val.imports ELSE <<>>,
                  IF got("outputs") THEN w.val.outputs ELSE <<>>,
                  IF got("subcommands") THEN w.val.subcommands ELSE <<>>)

\* Errors.
NoErr == [kind |-> "nil", wraps |-> "", text |-> <<>>]
ErrURL == [kind |-> "url.Error: parse", wraps |-> "", text |-> <<>>]
ErrConn == [kind |-> "url.Error: dial", wraps |-> "", text |-> <<>>]
ErrCanceled == [kind |-> "context canceled", wraps |-> "", text |-> <<>>]
ErrTimeout == [kind |-> "Client.Timeout exceeded", wraps |-> "", text |-> <<>>]
ErrSyntax == [kind |-> "json.SyntaxError", wraps |-> "", text |-> <<>>]
ErrType == [kind |-> "json.UnmarshalTypeError", wraps |-> "", text |-> <<>>]

errFetchExtensionCatalog == "failed to fetch extension catalog"

\* fmt.Errorf("%w: %s", errFetchExtensionCatalog, status)
ErrStatus(status) ==
    [kind |-> "fmt.wrapError", wraps |-> errFetchExtensionCatalog,
     text |-> <<errFetchExtensionCatalog, ": ", status>>]

\* A response body: text that is no JSON, or the JSON value null, a JSON array,
\* or a JSON object with the given entries.
BodyText == [kind |-> "text", entries |-> <<>>]
BodyNull == [kind |-> "null", entries |-> <<>>]
BodyArray == [kind |-> "array", entries |-> <<>>]
BodyObject(entries) == [kind |-> "object", entries |-> entries]
NoBody == [kind |-> "none", entries |-> <<>>]

\* json.NewDecoder(body).Decode(&catalog), catalog being the nil map before:
\* what catalog holds afterwards, and the error.
Decode(b) ==
    CASE b.kind = "text" -> [catalog |-> NilMap, err |-> ErrSyntax]
      [] b.kind = "array" -> [catalog |-> NilMap, err |-> ErrType]
      [] b.kind = "null" -> [catalog |-> NilMap, err |-> NoErr]
      [] b.kind = "object" ->
            [catalog |-> MkMap([k \in DOMAIN b.entries |-> DecodeExt(b.entries[k])]),
             err |-> IF \E k \in DOMAIN b.entries : b.entries[k].mistyped # {}
                     THEN ErrType ELSE NoErr]

\* resp.StatusCode and resp.Status.
NoResp == [code |-> 0, status |-> ""]
Responses ==
    {[code |-> 200, status |-> "200 OK"],
     [code |-> 204, status |-> "204 No Content"],
     [code |-> 404, status |-> "404 Not Found"],
     [code |-> 500, status |-> "500 Internal Server Error"]}

StatusOK == 200

httpRequestTimeout == 10

defaultExtensionCatalogURL == "https://registry.k6.io/catalog.json"

\* url.Parse, as http.NewRequestWithContext applies it.
ParsesAsURL(u) == u # "://invalid-url"

\* Whether a server listens where the URL points.
Reachable(u) == u # "http://localhost:0"

Urls == {defaultExtensionCatalogURL, "://invalid-url", "http://localhost:0"}

\* The width getTerminalWidth returns when standard output is no terminal.
defaultTerminalWidth == 120

----------------------------------------------------------------------------
(* Each specification leaves the variables of the others idle *)

IdleLatest ==
    /\ versions = <<>>
    /\ latestRet = [state |-> "idle", value |-> EmptyStr]

NoRet == [catalog |-> NilMap, err |-> NoErr]

IdleFetch ==
    /\ pc = "idle"
    /\ ctx = "live"
    /\ url = defaultExtensionCatalogURL
    /\ elapsed = 0
    /\ resp = NoResp
    /\ body = NoBody
    /\ decoded = FALSE
    /\ catalog = NilMap
    /\ todo = {}
    /\ ret = NoRet

IdleFilter ==
    /\ fCatalog = NilMap
    /\ fKind = ""
    /\ fTier = ""
    /\ fState = "idle"
    /\ filtered = <<>>

NilRecv == [nil |-> TRUE, v |-> ""]
Recv(v) == [nil |-> FALSE, v |-> v]

IdleKind ==
    /\ kRecv = NilRecv
    /\ kExt = NilExt
    /\ kRet = [state |-> "idle", value |-> FALSE]

IdleSort ==
    /\ sIn = <<>>
    /\ sList = <<>>
    /\ sFirst = <<>>
    /\ sCalls = 0

\* No Set call yet.
NoCall == [recv |-> "", arg |-> "", err |-> NoErr]

IdleOptions ==
    /\ oKind = ""
    /\ oTier = ""
    /\ oLast = NoCall
    /\ oCalls = 0

IdleTable ==
    /\ tExts = <<>>
    /\ tBrief = FALSE
    /\ tNotrunc = FALSE
    /\ tWidth = defaultTerminalWidth
    /\ tLines = <<>>
    /\ tState = "idle"

\* The zero value of the options struct.
ZeroOptions == [json |-> FALSE, brief |-> FALSE, tier |-> "", kind |-> ""]

\* No renderer has been called.
NoRender == [by |-> "", list |-> <<>>, brief |-> FALSE]

IdleRun ==
    /\ args = <<>>
    /\ invalidSeen = FALSE
    /\ opts = ZeroOptions
    /\ rPc = "idle"
    /\ fetches = 0
    /\ rendered = NoRender
    /\ rErr = NoErr

----------------------------------------------------------------------------
(* findLatest applied to every list of at most MaxVersions pool strings *)

Pending == "pending"
Done == "done"

InitLatest ==
    /\ versions \in SeqsUpTo(VersionPool, MaxVersions)
    /\ latestRet = [state |-> Pending, value |-> EmptyStr]
    /\ IdleFetch /\ IdleFilter /\ IdleKind
    /\ IdleSort /\ IdleOptions /\ IdleTable /\ IdleRun

CallFindLatest ==
    /\ latestRet.state = Pending
    /\ latestRet' = [state |-> Done, value |-> findLatest(versions)]
    /\ UNCHANGED <<versions, fetchVars, filterVars, kindVars, sortVars, optionVars, tableVars, runVars>>

NextLatest == CallFindLatest

SpecLatest == InitLatest /\ [][NextLatest]_vars

----------------------------------------------------------------------------
(* Claims about findLatest *)

Parses(i) == NewVersion(versions[i]).ok
Ver(i) == NewVersion(versions[i])

\* C1: for a non-empty list whose first entry parses, findLatest returns the
\* original string of a parseable entry that no parseable entry exceeds, and
\* every parseable entry before it is strictly smaller (the earliest of the
\* entries of maximal precedence is the one returned).
C1_LatestIsEarliestMax ==
    (latestRet.state = Done /\ Len(versions) > 0 /\ Parses(1)) =>
        \E i \in 1..Len(versions) :
            /\ Parses(i)
            /\ latestRet.value = versions[i]
            /\ \A j \in 1..Len(versions) :
                   Parses(j) => ~GreaterThan(Ver(j), Ver(i))
            /\ \A j \in 1..(i - 1) :
                   Parses(j) => GreaterThan(Ver(i), Ver(j))

\* A later entry replaced the first one, a still later entry of the same
\* precedence is written differently, and an unparseable entry is in the list.
C1_Witness ==
    /\ latestRet.state = Done
    /\ Len(versions) > 0 /\ Parses(1)
    /\ latestRet.value # versions[1]
    /\ \E i, j \in 1..Len(versions) :
           /\ i < j /\ Parses(i) /\ Parses(j)
           /\ latestRet.value = versions[i]
           /\ Compare(Ver(i), Ver(j)) = 0
           /\ versions[i] # versions[j]

\* C2: findLatest returns the empty string for the empty list and whenever the
\* first entry does not parse, whatever follows it.
C2_EmptyOrBadFirstGivesEmpty ==
    (latestRet.state = Done /\ (Len(versions) = 0 \/ ~Parses(1))) =>
        latestRet.value = EmptyStr

\* The first entry is malformed and a well-formed one follows it.
C2_Witness ==
    /\ latestRet.state = Done
    /\ Len(versions) >= 2 /\ ~Parses(1) /\ Parses(2)
    /\ latestRet.value = EmptyStr

----------------------------------------------------------------------------
(* getExtensionCatalog *)

MaxFetchKeys == 2

Versions_good == <<V_0_4_4, V_1_0_0>>
Versions_badFirst == <<V_invalid, V_1_0_0>>

\* The version lists a response may carry.
WireVersions == {<<>>, Versions_good, Versions_badFirst}

\* findLatest on each of them, computed once.
Latest == [vs \in WireVersions |-> findLatest(vs)]

\* The objects a response may hold for a key: with or without a "latest", with
\* or without "versions" (an absent field is left out of has and holds the zero
\* value), and one whose "module" is a JSON number.
WireObjects ==
    {JObject({"module"} \cup (IF l = EmptyStr THEN {} ELSE {"latest"})
                        \cup (IF vs = <<>> THEN {} ELSE {"versions"}),
             {},
             MkExt(M_x, EmptyStr, EmptyStr, l, vs, <<>>, <<>>, <<>>)) :
        l \in {EmptyStr, V_9_9_9}, vs \in WireVersions}
    \cup {JObject({"module"}, {"module"},
                  MkExt(EmptyStr, EmptyStr, EmptyStr, EmptyStr, <<>>, <<>>, <<>>, <<>>))}

WireBodies ==
    {BodyText, BodyNull, BodyArray}
    \cup {BodyObject(e) : e \in MapsOver(KeysUpTo(MaxFetchKeys), WireObjects \cup {JNull})}

\* A response object with every field present.
Wire(e) == JObject(ExtFields, {}, e)

\* What the registry may hold when the command asks it: an official JavaScript
\* extension, a community extension of no kind, k6 itself, and null.
RunObjects ==
    {Wire(MkExt(M_x, S_official, EmptyStr, EmptyStr, Versions_good, <<S_a>>, <<>>, <<>>)),
     Wire(MkExt(S_a, S_community, EmptyStr, EmptyStr, <<>>, <<>>, <<>>, <<>>)),
     Wire(MkExt(M_self, S_official, EmptyStr, EmptyStr, <<>>, <<>>, <<>>, <<>>)),
     JNull}

RunBodies ==
    {BodyText, BodyNull}
    \cup {BodyObject(e) : e \in MapsOver(KeysUpTo(MaxFetchKeys), RunObjects)}

\* The bodies the server may send: those above when the call was made on its
\* own, the registry's when the command made it.
ServedBodies == IF rPc = "idle" THEN WireBodies ELSE RunBodies

\* The call is inside the HTTP exchange: waiting for the response in client.Do,
\* or for the body in Decode.
Blocked == pc \in {"awaitResponse", "Decode"}

\* client.Timeout has expired.
TimedOut_noTimeout == FALSE

TimedOut == elapsed >= httpRequestTimeout

\* The errors that end an exchange the context or the timer has cut.
AbortErrors ==
    (IF ctx = "cancelled" THEN {ErrCanceled} ELSE {})
    \cup (IF TimedOut THEN {ErrTimeout} ELSE {})

Return(c, e) ==
    /\ pc' = "returned"
    /\ ret' = [catalog |-> c, err |-> e]

InitFetch ==
    /\ IdleLatest /\ IdleFilter /\ IdleKind
    /\ IdleSort /\ IdleOptions /\ IdleTable /\ IdleRun
    /\ pc = "NewRequest"
    /\ ctx \in {"live", "cancelled"}
    /\ url \in Urls
    /\ elapsed = 0
    /\ resp = NoResp
    /\ body = NoBody
    /\ decoded = FALSE
    /\ catalog = NilMap
    /\ todo = {}
    /\ ret = NoRet

\* The caller cancels the context while the call runs.
Cancel ==
    /\ pc \notin {"idle", "returned", "panicked"}
    /\ ctx = "live"
    /\ ctx' = "cancelled"
    /\ UNCHANGED <<pc, url, elapsed, resp, body, decoded, catalog, todo, ret>>
    /\ UNCHANGED <<latestVars, filterVars, kindVars, sortVars, optionVars, tableVars, runVars>>

\* http.NewRequestWithContext
NewRequest ==
    /\ pc = "NewRequest"
    /\ IF ParsesAsURL(url)
       THEN pc' = "Do" /\ ret' = ret
       ELSE Return(NilMap, ErrURL)
    /\ UNCHANGED <<ctx, url, elapsed, resp, body, decoded, catalog, todo>>
    /\ UNCHANGED <<latestVars, filterVars, kindVars, sortVars, optionVars, tableVars, runVars>>

\* client.Do, up to the request being on its way.
Do ==
    /\ pc = "Do"
    /\ IF ctx = "cancelled" THEN Return(NilMap, ErrCanceled)
       ELSE IF ~Reachable(url) THEN Return(NilMap, ErrConn)
       ELSE pc' = "awaitResponse" /\ ret' = ret
    /\ UNCHANGED <<ctx, url, elapsed, resp, body, decoded, catalog, todo>>
    /\ UNCHANGED <<latestVars, filterVars, kindVars, sortVars, optionVars, tableVars, runVars>>

\* A second passes while the call is inside the exchange.
Tick ==
    /\ Blocked
    /\ elapsed < httpRequestTimeout
    /\ elapsed' = elapsed + 1
    /\ UNCHANGED <<pc, ctx, url, resp, body, decoded, catalog, todo, ret>>
    /\ UNCHANGED <<latestVars, filterVars, kindVars, sortVars, optionVars, tableVars, runVars>>

\* The response's status line and headers arrive: client.Do returns it.
ReceiveResponse ==
    /\ pc = "awaitResponse"
    /\ AbortErrors = {}
    /\ \E r \in Responses : resp' = r
    /\ pc' = "checkStatus"
    /\ UNCHANGED <<ctx, url, elapsed, body, decoded, catalog, todo, ret>>
    /\ UNCHANGED <<latestVars, filterVars, kindVars, sortVars, optionVars, tableVars, runVars>>

\* The context or the timer cuts the exchange: client.Do, or the body read
\* inside Decode, fails and the call returns the error.
AbortExchange ==
    /\ Blocked
    /\ \E e \in AbortErrors : Return(NilMap, e)
    /\ UNCHANGED <<ctx, url, elapsed, resp, body, decoded, catalog, todo>>
    /\ UNCHANGED <<latestVars, filterVars, kindVars, sortVars, optionVars, tableVars, runVars>>

\* if resp.StatusCode != http.StatusOK
CheckStatus_acceptAny2xx ==
    /\ pc = "checkStatus"
    /\ IF resp.code \notin {200, 204}
       THEN Return(NilMap, ErrStatus(resp.status)) /\ decoded' = decoded
       ELSE pc' = "Decode" /\ decoded' = TRUE /\ ret' = ret
    /\ UNCHANGED <<ctx, url, elapsed, resp, body, catalog, todo>>
    /\ UNCHANGED <<latestVars, filterVars, kindVars, sortVars, optionVars, tableVars, runVars>>

CheckStatus ==
    /\ pc = "checkStatus"
    /\ IF resp.code # StatusOK
       THEN Return(NilMap, ErrStatus(resp.status)) /\ decoded' = decoded
       ELSE pc' = "Decode" /\ decoded' = TRUE /\ ret' = ret
    /\ UNCHANGED <<ctx, url, elapsed, resp, body, catalog, todo>>
    /\ UNCHANGED <<latestVars, filterVars, kindVars, sortVars, optionVars, tableVars, runVars>>

\* Inside Decode: the body arrives and catalog is filled from it; on an error the call
\* returns nil and the error, whatever catalog holds by then.
DecodeBody_returnPartial ==
    /\ pc = "Decode"
    /\ AbortErrors = {}
    /\ \E b \in ServedBodies :
        /\ body' = b
        /\ catalog' = Decode(b).catalog
        /\ IF Decode(b).err # NoErr
           THEN Return(Decode(b).catalog, Decode(b).err) /\ todo' = todo
           ELSE /\ pc' = "annotate"
                /\ todo' = DOMAIN Decode(b).catalog.m
                /\ ret' = ret
    /\ UNCHANGED <<ctx, url, elapsed, resp, decoded>>
    /\ UNCHANGED <<latestVars, filterVars, kindVars, sortVars, optionVars, tableVars, runVars>>

DecodeBody ==
    /\ pc = "Decode"
    /\ AbortErrors = {}
    /\ \E b \in ServedBodies :
        /\ body' = b
        /\ catalog' = Decode(b).catalog
        /\ IF Decode(b).err # NoErr
           THEN Return(NilMap, Decode(b).err) /\ todo' = todo
           ELSE /\ pc' = "annotate"
                /\ todo' = DOMAIN Decode(b).catalog.m
                /\ ret' = ret
    /\ UNCHANGED <<ctx, url, elapsed, resp, decoded>>
    /\ UNCHANGED <<latestVars, filterVars, kindVars, sortVars, optionVars, tableVars, runVars>>

\* One iteration of "for _, ext := range catalog": ext.Latest = findLatest(...).
\* The map is visited in any order; a nil ext makes the assignment panic.
Annotate_keepWireLatest ==
    /\ pc = "annotate"
    /\ \E k \in todo :
        IF catalog.m[k].nil
        THEN pc' = "panicked" /\ UNCHANGED <<catalog, todo>>
        ELSE /\ catalog' =
                  [catalog EXCEPT !.m[k].latest =
                      IF catalog.m[k].latest # EmptyStr THEN catalog.m[k].latest
                      ELSE Latest[catalog.m[k].versions]]
             /\ todo' = todo \ {k}
             /\ pc' = pc
    /\ UNCHANGED <<ctx, url, elapsed, resp, body, decoded, ret>>
    /\ UNCHANGED <<latestVars, filterVars, kindVars, sortVars, optionVars, tableVars, runVars>>

Annotate ==
    /\ pc = "annotate"
    /\ \E k \in todo :
        IF catalog.m[k].nil
        THEN pc' = "panicked" /\ UNCHANGED <<catalog, todo>>
        ELSE /\ catalog' =
                  [catalog EXCEPT !.m[k].latest = Latest[catalog.m[k].versions]]
             /\ todo' = todo \ {k}
             /\ pc' = pc
    /\ UNCHANGED <<ctx, url, elapsed, resp, body, decoded, ret>>
    /\ UNCHANGED <<latestVars, filterVars, kindVars, sortVars, optionVars, tableVars, runVars>>

\* return catalog, nil
ReturnCatalog ==
    /\ pc = "annotate"
    /\ todo = {}
    /\ Return(catalog, NoErr)
    /\ UNCHANGED <<ctx, url, elapsed, resp, body, decoded, catalog, todo>>
    /\ UNCHANGED <<latestVars, filterVars, kindVars, sortVars, optionVars, tableVars, runVars>>

NextFetch ==
    \/ Cancel
    \/ NewRequest
    \/ Do
    \/ Tick
    \/ ReceiveResponse
    \/ AbortExchange
    \/ CheckStatus
    \/ DecodeBody
    \/ Annotate
    \/ ReturnCatalog

SpecFetch == InitFetch /\ [][NextFetch]_vars

\* The steps of the call itself, and the passing of a second.
Progress ==
    \/ NewRequest
    \/ Do
    \/ Tick
    \/ AbortExchange
    \/ CheckStatus
    \/ Annotate
    \/ ReturnCatalog

\* The call keeps running and time keeps passing; that the server answers, or
\* that the caller cancels, is not assumed.
FairSpecFetch == SpecFetch /\ WF_vars(Progress)

----------------------------------------------------------------------------
(* Claims about getExtensionCatalog *)

Returned == pc = "returned"

\* C3: every descriptor of a catalog returned without error has
\* Latest = findLatest(Versions), Versions being what the response carried,
\* whatever "latest" the response carried.
C3_LatestRecomputed ==
    (Returned /\ ret.err = NoErr) =>
        \A k \in DOMAIN ret.catalog.m :
            LET d == ret.catalog.m[k]
                w == body.entries[k]
            IN /\ d.latest = findLatest(d.versions)
               /\ d.versions = (IF "versions" \in w.has THEN w.val.versions ELSE <<>>)

\* A returned catalog in which one wire "latest" was replaced by the resolved
\* version and another by the empty string (first version malformed).
C3_Witness ==
    /\ Returned /\ ret.err = NoErr
    /\ \E k1, k2 \in DOMAIN ret.catalog.m :
        /\ body.entries[k1].val.latest = V_9_9_9
        /\ body.entries[k1].val.versions = Versions_good
        /\ ret.catalog.m[k1].latest = V_1_0_0
        /\ body.entries[k2].val.latest = V_9_9_9
        /\ body.entries[k2].val.versions = Versions_badFirst
        /\ ret.catalog.m[k2].latest = EmptyStr

\* C4: a response whose status is not 200 OK is never decoded, and the call
\* returns the nil catalog with an error that wraps errFetchExtensionCatalog
\* and carries the status text.
C4_NonOKStatusIsError ==
    (resp # NoResp /\ resp.code # 200) =>
        /\ ~decoded
        /\ body = NoBody
        /\ pc \in {"checkStatus", "returned"}
        /\ Returned =>
            /\ ret.catalog = NilMap
            /\ ret.err.wraps = errFetchExtensionCatalog
            /\ ret.err.text = <<errFetchExtensionCatalog, ": ", resp.status>>

\* The call has returned on a 2xx status other than 200.
C4_Witness ==
    /\ Returned
    /\ resp.code = 204
    /\ ret.err.wraps = errFetchExtensionCatalog

\* A body json can decode into map[string]*extension without error.
DecodableBody(b) ==
    \/ b.kind = "null"
    \/ b.kind = "object" /\ \A k \in DOMAIN b.entries : b.entries[k].mistyped = {}

\* C5: when no response was obtained (bad URL, unreachable server, timeout,
\* cancellation) or the body of a 200 response was not read or does not decode,
\* the call returns a non-nil error and the nil catalog; and no call returns a
\* catalog together with an error.
C5_FailureGivesErrorAndNil ==
    Returned =>
        /\ (resp = NoResp \/ (resp.code = 200 /\ ~DecodableBody(body))) =>
               (ret.err # NoErr /\ ret.catalog = NilMap)
        /\ ret.err # NoErr => ret.catalog = NilMap

\* Decode failed after it had put an entry into catalog, and the call
\* returned nil.
C5_Witness ==
    /\ Returned
    /\ body.kind = "object"
    /\ ret.err = ErrType
    /\ ~catalog.nil /\ DOMAIN catalog.m # {}
    /\ ret.catalog = NilMap

Terminated == pc \in {"returned", "panicked"}

FailedWith(errs) == Returned /\ ret.err \in errs /\ ret.catalog = NilMap

\* C6: every call ends; a call that is inside the exchange when the context is
\* cancelled or the 10 seconds are over returns the cancellation or timeout
\* error and nil; a call made with a cancelled context never waits for a
\* response and returns an error and nil.
C6_FetchNeverBlocks ==
    /\ <>Terminated
    /\ (Blocked /\ (ctx = "cancelled" \/ elapsed >= httpRequestTimeout))
           ~> FailedWith({ErrCanceled, ErrTimeout})
    /\ (pc = "NewRequest" /\ ctx = "cancelled") =>
           /\ [](pc # "awaitResponse" /\ resp = NoResp)
           /\ <>FailedWith({ErrURL, ErrCanceled})

\* The timer cut the reading of a 200 response's body.
C6_Witness ==
    /\ Returned
    /\ resp.code = 200
    /\ body = NoBody
    /\ ctx = "live"
    /\ elapsed = httpRequestTimeout
    /\ ret.err = ErrTimeout

\* C20: a call that has returned has returned exactly one of a catalog and an
\* error: the catalog is not nil exactly when the error is nil, whatever body
\* the 200 response had, the JSON literal null included.
C20_CatalogOrError ==
    Returned => (ret.err = NoErr <=> ~ret.catalog.nil)

----------------------------------------------------------------------------
(* The kind and tier options and their filters *)

kindJavaScript == "javascript"
kindOutput == "output"
kindSubcommand == "subcommand"

tierOfficial == "official"
tierCommunity == "community"

kindValues == <<kindJavaScript, kindOutput, kindSubcommand>>
tierValues == <<tierOfficial, tierCommunity>>

\* The strings extensionType returns.
T_JavaScript == <<"J", "a", "v", "a", "S", "c", "r", "i", "p", "t">>
T_Output == <<"O", "u", "t", "p", "u", "t">>
T_Subcommand == <<"S", "u", "b", "c", "o", "m", "m", "a", "n", "d">>

\* A classification that looks at outputs before imports.
extensionType_outputFirst(e) ==
    IF Len(e.outputs) > 0 THEN T_Output
    ELSE IF Len(e.imports) > 0 THEN T_JavaScript
    ELSE IF Len(e.subcommands) > 0 THEN T_Subcommand
    ELSE EmptyStr

\* extensionType: the kind a descriptor is displayed under.
extensionType(e) ==
    IF Len(e.imports) > 0 THEN T_JavaScript
    ELSE IF Len(e.outputs) > 0 THEN T_Output
    ELSE IF Len(e.subcommands) > 0 THEN T_Subcommand
    ELSE EmptyStr

\* A kind filter that matches only the kind a descriptor is displayed under.
kindFilter_displayedKind(k, ext) ==
    IF k.nil THEN TRUE
    ELSE IF k.v = kindJavaScript THEN extensionType(ext) = T_JavaScript
    ELSE IF k.v = kindOutput THEN extensionType(ext) = T_Output
    ELSE IF k.v = kindSubcommand THEN extensionType(ext) = T_Subcommand
    ELSE TRUE

\* func (k *kind) filter(ext *extension) bool
kindFilter(k, ext) ==
    IF k.nil THEN TRUE
    ELSE IF k.v \notin {kindJavaScript, kindOutput, kindSubcommand} THEN TRUE
    ELSE LET prop == CASE k.v = kindJavaScript -> ext.imports
                       [] k.v = kindOutput -> ext.outputs
                       [] k.v = kindSubcommand -> ext.subcommands
         IN Len(prop) > 0

\* A tier filter that takes an unknown tier for community, as the display does.
tierFilter_coerce(t, ext) ==
    IF t.nil THEN TRUE
    ELSE IF t.v = tierOfficial THEN ext.tier = S_official
    ELSE IF t.v = tierCommunity THEN ext.tier # S_official
    ELSE TRUE

\* func (t *tier) filter(ext *extension) bool
tierFilter(t, ext) ==
    IF t.nil THEN TRUE
    ELSE IF t.v = tierOfficial THEN ext.tier = S_official
    ELSE IF t.v = tierCommunity THEN ext.tier = S_community
    ELSE TRUE

----------------------------------------------------------------------------
(* filterExtensions *)

\* The loop body for one map entry: the entry is skipped, appended, or (a nil
\* pointer) makes ext.Module panic.
RECURSIVE FilterLoop_byKey(_, _, _, _, _)
FilterLoop_byKey(cat, kind, tier, order, acc) ==
    IF order = <<>> THEN [panicked |-> FALSE, out |-> acc]
    ELSE LET ext == cat.m[Head(order)]
         IN IF ext.nil THEN [panicked |-> TRUE, out |-> <<>>]
            ELSE IF Head(order) = "k6"
                 THEN FilterLoop_byKey(cat, kind, tier, Tail(order), acc)
            ELSE IF kindFilter(Recv(kind), ext) /\ tierFilter(Recv(tier), ext)
                 THEN FilterLoop_byKey(cat, kind, tier, Tail(order), Append(acc, Head(order)))
            ELSE FilterLoop_byKey(cat, kind, tier, Tail(order), acc)

RECURSIVE FilterLoop_either(_, _, _, _, _)
FilterLoop_either(cat, kind, tier, order, acc) ==
    IF order = <<>> THEN [panicked |-> FALSE, out |-> acc]
    ELSE LET ext == cat.m[Head(order)]
         IN IF ext.nil THEN [panicked |-> TRUE, out |-> <<>>]
            ELSE IF ext.module = M_self
                 THEN FilterLoop_either(cat, kind, tier, Tail(order), acc)
            ELSE IF kindFilter(Recv(kind), ext) \/ tierFilter(Recv(tier), ext)
                 THEN FilterLoop_either(cat, kind, tier, Tail(order), Append(acc, Head(order)))
            ELSE FilterLoop_either(cat, kind, tier, Tail(order), acc)

RECURSIVE FilterLoop(_, _, _, _, _)
FilterLoop(cat, kind, tier, order, acc) ==
    IF order = <<>> THEN [panicked |-> FALSE, out |-> acc]
    ELSE LET ext == cat.m[Head(order)]
         IN IF ext.nil THEN [panicked |-> TRUE, out |-> <<>>]
            ELSE IF ext.module = M_self
                 THEN FilterLoop(cat, kind, tier, Tail(order), acc)
            ELSE IF kindFilter(Recv(kind), ext) /\ tierFilter(Recv(tier), ext)
                 THEN FilterLoop(cat, kind, tier, Tail(order), Append(acc, Head(order)))
            ELSE FilterLoop(cat, kind, tier, Tail(order), acc)

\* filterExtensions(catalog, kind, tier), the map being visited in the given
\* order. The slice holds pointers into the catalog: here, the entries' keys.
filterExtensions(cat, kind, tier, order) == FilterLoop(cat, kind, tier, order, <<>>)

\* The orders in which "range" may visit the keys K.
Orders(K) ==
    {o \in [1..Cardinality(K) -> K] : \A i, j \in 1..Cardinality(K) : o[i] = o[j] => i = j}

Range(f) == {f[i] : i \in DOMAIN f}

MaxFilterKeys == 2

\* Descriptors of other modules: every tier, with no facet, with one, with two;
\* and descriptors of k6 itself.
FilterExts ==
    {MkExt(M_x, t, EmptyStr, EmptyStr, <<>>, f[1], f[2], f[3]) :
        t \in {S_official, S_community, EmptyStr, S_partner},
        f \in {<<<<>>, <<>>, <<>>>>, <<<<S_a>>, <<S_a>>, <<>>>>,
               <<<<>>, <<S_a>>, <<>>>>, <<<<>>, <<>>, <<S_a>>>>}}
    \cup {MkExt(M_self, S_official, EmptyStr, EmptyStr, <<>>, <<S_a>>, <<>>, <<>>),
          MkExt(M_self, EmptyStr, EmptyStr, EmptyStr, <<>>, <<>>, <<>>, <<>>)}

FilterCatalogs ==
    {NilMap} \cup
    {MkMap(m) : m \in MapsOver(KeysUpTo(MaxFilterKeys), FilterExts \cup {NilExt})}

KindArgs == {"", kindJavaScript, kindOutput, kindSubcommand}
TierArgs == {"", tierOfficial, tierCommunity}

InitFilter ==
    /\ IdleLatest /\ IdleFetch /\ IdleKind
    /\ IdleSort /\ IdleOptions /\ IdleTable /\ IdleRun
    /\ fCatalog \in FilterCatalogs
    /\ fKind \in KindArgs
    /\ fTier \in TierArgs
    /\ fState = "pending"
    /\ filtered = <<>>

CallFilterExtensions ==
    /\ fState = "pending"
    /\ \E order \in Orders(DOMAIN fCatalog.m) :
          LET r == filterExtensions(fCatalog, fKind, fTier, order)
          IN /\ fState' = IF r.panicked THEN "panicked" ELSE "done"
             /\ filtered' = r.out
    /\ UNCHANGED <<fCatalog, fKind, fTier>>
    /\ UNCHANGED <<latestVars, fetchVars, kindVars, sortVars, optionVars, tableVars, runVars>>

NextFilter == CallFilterExtensions

SpecFilter == InitFilter /\ [][NextFilter]_vars

----------------------------------------------------------------------------
(* kind.filter called on its own *)

\* A list that is empty or not.
Facets == {<<>>, <<S_a>>}

KindReceivers == {NilRecv} \cup {Recv(v) : v \in KindArgs}

KindExts ==
    {MkExt(M_x, t, EmptyStr, EmptyStr, <<>>, i, o, c) :
        t \in {S_official, EmptyStr}, i \in Facets, o \in Facets, c \in Facets}

InitKind ==
    /\ IdleLatest /\ IdleFetch /\ IdleFilter
    /\ IdleSort /\ IdleOptions /\ IdleTable /\ IdleRun
    /\ kRecv \in KindReceivers
    /\ kExt \in KindExts
    /\ kRet = [state |-> Pending, value |-> FALSE]

CallKindFilter ==
    /\ kRet.state = Pending
    /\ kRet' = [state |-> Done, value |-> kindFilter(kRecv, kExt)]
    /\ UNCHANGED <<kRecv, kExt>>
    /\ UNCHANGED <<latestVars, fetchVars, filterVars, sortVars, optionVars, tableVars, runVars>>

NextKind == CallKindFilter

SpecKind == InitKind /\ [][NextKind]_vars

----------------------------------------------------------------------------
(* Claims about filterExtensions *)

FilterDone == fState = "done"

Keys == DOMAIN fCatalog.m
Out == Range(filtered)

\* What filterExtensions returns for other filter values on the same catalog,
\* as a set, for each order of visiting the map.
OutsFor(kind, tier) ==
    {Range(filterExtensions(fCatalog, kind, tier, o).out) : o \in Orders(Keys)}

\* C7: no descriptor in the output of filterExtensions has the module
\* "go.k6.io/k6", whatever the filters; and with no filter, every descriptor
\* with another module is in the output, whatever its key.
C7_SelfNeverInOutput ==
    FilterDone =>
        /\ \A i \in 1..Len(filtered) : fCatalog.m[filtered[i]].module # M_self
        /\ (fKind = "" /\ fTier = "") =>
               \A k \in Keys : fCatalog.m[k].module # M_self => k \in Out

\* The entry stored under the key "k6" is another module and is returned; the
\* entry of k6 itself is stored under another key and is left out.
C7_Witness ==
    /\ FilterDone
    /\ "k6" \in Keys /\ fCatalog.m["k6"].module = M_x
    /\ "a" \in Keys /\ fCatalog.m["a"].module = M_self
    /\ filtered = <<"k6">>

\* C8: the descriptors returned for (kind, tier) are those returned both for
\* (kind, "") and for ("", tier).
C8_FilterIsIntersection ==
    FilterDone =>
        \A a \in OutsFor(fKind, "") : \A b \in OutsFor("", fTier) :
            Out = a \cap b

\* Both filters are set, they keep different non-empty sets, and something
\* passes both.
C8_Witness ==
    /\ FilterDone
    /\ fKind # "" /\ fTier # ""
    /\ Out # {}
    /\ \E a \in OutsFor(fKind, "") : \E b \in OutsFor("", fTier) :
           a # b /\ a # Out

\* The kind filter, as the claims state it.
HasFacet(kind, e) ==
    \/ kind = ""
    \/ kind = "javascript" /\ e.imports # <<>>
    \/ kind = "output" /\ e.outputs # <<>>
    \/ kind = "subcommand" /\ e.subcommands # <<>>

\* C9: a nil or empty kind filter matches every descriptor; javascript, output
\* and subcommand match exactly the descriptors whose imports, outputs and
\* subcommands is not empty, whatever the other two lists hold.
C9_KindFilterIsInclusive ==
    kRet.state = Done =>
        kRet.value = (kRecv.nil \/ HasFacet(kRecv.v, kExt))

\* A descriptor displayed as JavaScript passes the output filter.
C9_Witness ==
    /\ kRet.state = Done
    /\ kRecv = Recv(kindOutput)
    /\ kExt.imports # <<>> /\ kExt.outputs # <<>>
    /\ extensionType(kExt) = T_JavaScript
    /\ kRet.value = TRUE

UnknownTier(e) == e.tier # S_official /\ e.tier # S_community

\* C10: a descriptor whose tier is neither "official" nor "community" is left
\* out under either tier filter; with no tier filter it is returned exactly
\* when it is not k6 itself and passes the kind filter.
C10_TierFilterIsStrict ==
    FilterDone =>
        \A k \in Keys :
            UnknownTier(fCatalog.m[k]) =>
                /\ fTier \in {"official", "community"} => k \notin Out
                /\ fTier = "" =>
                       (k \in Out <=> /\ fCatalog.m[k].module # M_self
                                      /\ HasFacet(fKind, fCatalog.m[k]))

\* Under the community filter a descriptor without a tier is dropped while one
\* of the community tier is kept.
C10_Witness ==
    /\ FilterDone
    /\ fTier = "community"
    /\ \E k1, k2 \in Keys :
        /\ fCatalog.m[k1].tier = EmptyStr /\ fCatalog.m[k1].module # M_self
        /\ HasFacet(fKind, fCatalog.m[k1])
        /\ k1 \notin Out
        /\ fCatalog.m[k2].tier = S_community
        /\ k2 \in Out

----------------------------------------------------------------------------
(* sortExtensions *)

\* The less function handed to sort.Slice, with <= in its last comparison.
sortLess_orEqual(a, b) ==
    IF a.tier # b.tier THEN StrLess(b.tier, a.tier)
    ELSE IF extensionType(a) # extensionType(b)
         THEN StrLess(extensionType(a), extensionType(b))
    ELSE ~StrLess(b.module, a.module)

\* The less function with the tiers compared in ascending order.
sortLess_tierAscending(a, b) ==
    IF a.tier # b.tier THEN StrLess(a.tier, b.tier)
    ELSE IF extensionType(a) # extensionType(b)
         THEN StrLess(extensionType(a), extensionType(b))
    ELSE StrLess(a.module, b.module)

\* The less function handed to sort.Slice: extensions[i] against extensions[j].
sortLess(a, b) ==
    IF a.tier # b.tier THEN StrLess(b.tier, a.tier)
    ELSE IF extensionType(a) # extensionType(b)
         THEN StrLess(extensionType(a), extensionType(b))
    ELSE StrLess(a.module, b.module)

Swap(s, i, j) == [s EXCEPT ![i] = s[j], ![j] = s[i]]

\* The inner loop of the insertion sort: for j := i; j > a && less(j, j-1); j--
RECURSIVE Sink(_, _)
Sink(s, j) ==
    IF j > 1 /\ sortLess(s[j], s[j - 1]) THEN Sink(Swap(s, j, j - 1), j - 1)
    ELSE s

\* sort.Slice on a slice of at most 12 elements is an insertion sort:
\* for i := a + 1; i < b; i++
RECURSIVE InsertionSort(_, _)
InsertionSort(s, i) ==
    IF i > Len(s) THEN s ELSE InsertionSort(Sink(s, i), i + 1)

\* sortExtensions(extensions): the slice afterwards.
sortExtensions(extensions) == InsertionSort(extensions, 2)

MaxSortLen == 3
MaxSortCalls == 2

S_desc == <<"d">>

\* Descriptors of every tier and kind, two of them alike in tier, kind and
\* module but not in description, and one with another module.
SortPool ==
    {MkExt(M_x, S_official, EmptyStr, EmptyStr, <<>>, <<S_a>>, <<>>, <<>>),
     MkExt(M_x, S_official, S_desc, EmptyStr, <<>>, <<S_a>>, <<>>, <<>>),
     MkExt(S_a, S_official, EmptyStr, EmptyStr, <<>>, <<S_a>>, <<S_a>>, <<>>),
     MkExt(M_x, S_official, EmptyStr, EmptyStr, <<>>, <<>>, <<S_a>>, <<>>),
     MkExt(M_x, S_official, EmptyStr, EmptyStr, <<>>, <<>>, <<>>, <<>>),
     MkExt(M_x, S_community, EmptyStr, EmptyStr, <<>>, <<S_a>>, <<>>, <<>>),
     MkExt(S_a, S_community, EmptyStr, EmptyStr, <<>>, <<>>, <<>>, <<S_a>>),
     MkExt(M_x, S_partner, EmptyStr, EmptyStr, <<>>, <<S_a>>, <<>>, <<>>),
     MkExt(M_x, EmptyStr, EmptyStr, EmptyStr, <<>>, <<>>, <<>>, <<>>)}

InitSort ==
    /\ IdleLatest /\ IdleFetch /\ IdleFilter /\ IdleKind
    /\ IdleOptions /\ IdleTable /\ IdleRun
    /\ sIn \in SeqsUpTo(SortPool, MaxSortLen)
    /\ sList = sIn
    /\ sFirst = <<>>
    /\ sCalls = 0

CallSortExtensions ==
    /\ sCalls < MaxSortCalls
    /\ sList' = sortExtensions(sList)
    /\ sFirst' = IF sCalls = 0 THEN sortExtensions(sList) ELSE sFirst
    /\ sCalls' = sCalls + 1
    /\ UNCHANGED sIn
    /\ UNCHANGED <<latestVars, fetchVars, filterVars, kindVars, optionVars, tableVars, runVars>>

NextSort == CallSortExtensions

SpecSort == InitSort /\ [][NextSort]_vars

----------------------------------------------------------------------------
(* Claims about sortExtensions *)

Sorted == sCalls >= 1

\* The number of places of s that hold e.
Count(s, e) == Cardinality({i \in 1..Len(s) : s[i] = e})

\* t holds the elements of s, each as often.
IsPermutation(s, t) ==
    /\ Len(s) = Len(t)
    /\ \A i \in 1..Len(s) : Count(s, s[i]) = Count(t, s[i])

\* C12: after sortExtensions the slice holds the descriptors it held before,
\* and every descriptor of tier "official" is before every descriptor of tier
\* "community".
C12_OfficialBeforeCommunity ==
    Sorted =>
        /\ IsPermutation(sIn, sList)
        /\ \A i, j \in 1..Len(sList) :
               (sList[i].tier = S_official /\ sList[j].tier = S_community) => i < j

\* A community descriptor was given first, an official one last and one of
\* another tier between them.
C12_Witness ==
    /\ Sorted
    /\ Len(sIn) = 3
    /\ sIn[1].tier = S_community /\ sIn[2].tier = S_partner /\ sIn[3].tier = S_official
    /\ sList[2].tier = S_official /\ sList[3].tier = S_community

\* The place of a display kind in the order javascript, output, subcommand,
\* none.
KindRank(e) ==
    CASE extensionType(e) = T_JavaScript -> 1
      [] extensionType(e) = T_Output -> 2
      [] extensionType(e) = T_Subcommand -> 3
      [] extensionType(e) = EmptyStr -> 4

\* C13: after sortExtensions, of two descriptors of the same tier the one of
\* the earlier display kind (javascript, output, subcommand, none) comes first,
\* and of two of the same tier and kind the one whose module is smaller.
C13_KindThenModule ==
    Sorted =>
        \A i, j \in 1..Len(sList) :
            (i < j /\ sList[i].tier = sList[j].tier) =>
                /\ KindRank(sList[i]) <= KindRank(sList[j])
                /\ KindRank(sList[i]) = KindRank(sList[j]) =>
                       ~StrLess(sList[j].module, sList[i].module)

SameKeys(a, b) ==
    /\ a.tier = b.tier
    /\ extensionType(a) = extensionType(b)
    /\ a.module = b.module

\* C14: a second sortExtensions leaves the slice as the first one left it.
C14_SortIsIdempotent ==
    sCalls >= 2 => sList = sFirst

\* The first call reordered the slice, which holds two descriptors alike in
\* tier, kind and module and unlike in description, and a second call followed.
C14_Witness ==
    /\ sCalls >= 2
    /\ sFirst # sIn
    /\ sList = sFirst
    /\ \E i \in 1..(Len(sList) - 1) :
           SameKeys(sList[i], sList[i + 1]) /\ sList[i] # sList[i + 1]

----------------------------------------------------------------------------
(* The Set and String methods of the kind and tier options *)

errInvalidKind ==
    [kind |-> "errors.errorString", wraps |-> "",
     text |-> <<"invalid type: allowed values are javascript, output, subcommand">>]

errInvalidTier ==
    [kind |-> "errors.errorString", wraps |-> "",
     text |-> <<"invalid tier: allowed values are official, community">>]

\* func (k *kind) String() string
kindString(k) == IF k.nil THEN "" ELSE k.v

\* func (t *tier) String() string
tierString(t) == IF t.nil THEN "" ELSE t.v

\* A Set that assigns before it validates.
kindSet_storeThenCheck(k, s) ==
    IF s \in {kindJavaScript, kindOutput, kindSubcommand}
    THEN [value |-> s, err |-> NoErr]
    ELSE [value |-> s, err |-> errInvalidKind]

\* func (k *kind) Set(s string) error, k pointing to an option that holds the
\* value k: the value it holds afterwards, and the error returned.
kindSet(k, s) ==
    IF s \in {kindJavaScript, kindOutput, kindSubcommand}
    THEN [value |-> s, err |-> NoErr]
    ELSE [value |-> k, err |-> errInvalidKind]

\* A Set that takes the empty string for "no filter".
tierSet_acceptEmpty(t, s) ==
    IF s \in {"", tierOfficial, tierCommunity}
    THEN [value |-> s, err |-> NoErr]
    ELSE [value |-> t, err |-> errInvalidTier]

\* func (t *tier) Set(s string) error
tierSet(t, s) ==
    IF s \in {tierOfficial, tierCommunity}
    THEN [value |-> s, err |-> NoErr]
    ELSE [value |-> t, err |-> errInvalidTier]

MaxSetCalls == 3

\* The strings Set is called with: the literals of both options, a string that
\* is neither, and the empty string.
SetArgs ==
    {kindJavaScript, kindOutput, kindSubcommand, tierOfficial, tierCommunity,
     "invalid", ""}

InitOptions ==
    /\ IdleLatest /\ IdleFetch /\ IdleFilter /\ IdleKind
    /\ IdleSort /\ IdleTable /\ IdleRun
    /\ oKind = ""
    /\ oTier = ""
    /\ oLast = NoCall
    /\ oCalls = 0

CallKindSet ==
    /\ oCalls < MaxSetCalls
    /\ \E s \in SetArgs :
        /\ oKind' = kindSet(oKind, s).value
        /\ oLast' = [recv |-> "kind", arg |-> s, err |-> kindSet(oKind, s).err]
    /\ oCalls' = oCalls + 1
    /\ UNCHANGED oTier
    /\ UNCHANGED <<latestVars, fetchVars, filterVars, kindVars, sortVars, tableVars, runVars>>

CallTierSet ==
    /\ oCalls < MaxSetCalls
    /\ \E s \in SetArgs :
        /\ oTier' = tierSet(oTier, s).value
        /\ oLast' = [recv |-> "tier", arg |-> s, err |-> tierSet(oTier, s).err]
    /\ oCalls' = oCalls + 1
    /\ UNCHANGED oKind
    /\ UNCHANGED <<latestVars, fetchVars, filterVars, kindVars, sortVars, tableVars, runVars>>

NextOptions == CallKindSet \/ CallTierSet

SpecOptions == InitOptions /\ [][NextOptions]_vars

----------------------------------------------------------------------------
(* Claims about the options *)

ValidKinds == {"javascript", "output", "subcommand"}
ValidTiers == {"official", "community"}

\* C17: whatever Set calls are made on the options, starting from their zero
\* values, the kind is empty or one of javascript, output, subcommand and the
\* tier is empty or one of official, community (the values run hands to
\* filterExtensions); a Set that returns no error has stored its argument,
\* which String then returns, and a Set that returns an error has left the
\* value as it was.
C17_OptionsStayValid ==
    /\ [](oKind \in {""} \cup ValidKinds /\ oTier \in {""} \cup ValidTiers)
    /\ [][/\ oLast'.recv = "kind" =>
                IF oLast'.err = NoErr
                THEN oKind' = oLast'.arg /\ kindString(Recv(oKind')) = oLast'.arg
                ELSE oKind' = oKind
          /\ oLast'.recv = "tier" =>
                IF oLast'.err = NoErr
                THEN oTier' = oLast'.arg /\ tierString(Recv(oTier')) = oLast'.arg
                ELSE oTier' = oTier]_vars

\* Both options were set and a later Set("") on the kind was rejected.
C17_Witness ==
    /\ oCalls = 3
    /\ oTier = "community"
    /\ oKind = "javascript"
    /\ oLast = [recv |-> "kind", arg |-> "", err |-> errInvalidKind]

----------------------------------------------------------------------------
(* outputTable *)

normalHeader ==
    << <<"M", "O", "D", "U", "L", "E">>, <<"L", "A", "T", "E", "S", "T">>,
       <<"T", "Y", "P", "E">>, <<"T", "I", "E", "R">>,
       <<"D", "E", "S", "C", "R", "I", "P", "T", "I", "O", "N">> >>

briefHeader ==
    << <<"M", "O", "D", "U", "L", "E">>,
       <<"D", "E", "S", "C", "R", "I", "P", "T", "I", "O", "N">> >>

typeColWidth == 4
tierColWidth == 4
minDescWidth == 20
columnPadding == 2
normalPaddings == 10
briefPaddings == 4

dots == <<".", ".", ".">>
dotsLen == Len(dots)

T_Official == <<"O", "f", "f", "i", "c", "i", "a", "l">>
T_Community == <<"C", "o", "m", "m", "u", "n", "i", "t", "y">>

\* extensionTier: the tier a descriptor is displayed under.
extensionTier(e) ==
    IF e.tier = S_official THEN T_Official ELSE T_Community

\* abbrev: the short form of a displayed kind or tier.
abbrev(s) ==
    CASE s = T_JavaScript -> <<"j", "s">>
      [] s = T_Output -> <<"o", "u", "t">>
      [] s = T_Subcommand -> <<"s", "u", "b">>
      [] s = T_Official -> <<"o", "f", "f">>
      [] s = T_Community -> <<"c", "o", "m">>
      [] OTHER -> s

Max(S) == CHOOSE x \in S : \A y \in S : y <= x

\* otherLen of one descriptor, in the first loop of outputTable.
otherLen(ext, brief) ==
    IF brief THEN Len(ext.module)
    ELSE Len(ext.module) + Len(ext.latest) + typeColWidth + tierColWidth

\* otherCols after the first loop and the paddings.
otherCols(extensions, brief) ==
    Max({0} \cup {otherLen(extensions[i], brief) : i \in 1..Len(extensions)})
        + (IF brief THEN briefPaddings ELSE normalPaddings)

\* descWidth := max(termWidth-otherCols, minDescWidth)
descWidth(extensions, brief, termWidth) ==
    Max({termWidth - otherCols(extensions, brief), minDescWidth})

\* The line outputTable writes for one descriptor, as its cells.
TableRow(ext, brief, notrunc, dw) ==
    LET desc == IF ~notrunc /\ Len(ext.description) > dw
                THEN SubSeq(ext.description, 1, dw - dotsLen) \o dots
                ELSE ext.description
    IN IF brief THEN <<ext.module, desc>>
       ELSE <<ext.module, ext.latest, abbrev(extensionType(ext)),
              abbrev(extensionTier(ext)), desc>>

\* outputTable(gs, extensions, brief, notrunc), the terminal being termWidth
\* wide: the lines handed to the tabwriter, header first. (The three-argument
\* outputTable is this one with notrunc false.)
outputTable(extensions, brief, notrunc, termWidth) ==
    <<IF brief THEN briefHeader ELSE normalHeader>>
    \o [i \in 1..Len(extensions) |->
           TableRow(extensions[i], brief, notrunc,
                    descWidth(extensions, brief, termWidth))]

\* text/tabwriter with minwidth 0 and padding columnPadding: a cell that a tab
\* ends is as wide as the widest such cell of its column plus the padding; the
\* last cell of a line, which the newline ends, is written as it is.
ColumnWidth(lines, c) ==
    Max({Len(lines[n][c]) : n \in 1..Len(lines)}) + columnPadding

RECURSIVE SumTo(_, _)
SumTo(f, n) == IF n = 0 THEN 0 ELSE f[n] + SumTo(f, n - 1)

\* The width of line n as the tabwriter emits it.
LineWidth(lines, n) ==
    LET cells == Len(lines[n])
    IN SumTo([c \in 1..(cells - 1) |-> ColumnWidth(lines, c)], cells - 1)
           + Len(lines[n][cells])

MaxRows == 2

\* A string of n characters.
Filler(n) == [i \in 1..n |-> "d"]

\* Descriptors with short and long modules, versions and descriptions, of each
\* combination of facets.
TablePool ==
    {MkExt(M_x, S_official, Filler(130), EmptyStr, <<>>, <<S_a>>, <<>>, <<>>),
     MkExt(Filler(28), S_official, Filler(130), V_0_4_4, <<>>, <<S_a>>, <<S_a>>, <<>>),
     MkExt(Filler(10), S_community, Filler(19), Filler(14), <<>>, <<>>, <<S_a>>, <<>>),
     MkExt(Filler(28), S_community, EmptyStr, V_0_4_4, <<>>, <<>>, <<>>, <<S_a>>),
     MkExt(Filler(28), EmptyStr, Filler(130), V_0_4_4, <<>>, <<>>, <<>>, <<>>),
     MkExt(Filler(28), S_partner, Filler(21), V_0_4_4, <<>>, <<>>, <<S_a>>, <<S_a>>),
     MkExt(Filler(28), S_official, Filler(70), V_0_4_4, <<>>, <<S_a>>, <<>>, <<S_a>>),
     MkExt(Filler(40), S_official, Filler(130), V_0_4_4, <<>>, <<S_a, S_a>>, <<S_a>>, <<S_a>>)}

\* The widths getTerminalWidth may return: a detected one, or the default.
TermWidths == {40, 80, defaultTerminalWidth}

InitTable ==
    /\ IdleLatest /\ IdleFetch /\ IdleFilter /\ IdleKind
    /\ IdleSort /\ IdleOptions /\ IdleRun
    /\ tExts \in SeqsUpTo(TablePool, MaxRows)
    /\ tBrief \in BOOLEAN
    /\ tNotrunc \in BOOLEAN
    /\ tWidth \in TermWidths
    /\ tLines = <<>>
    /\ tState = "pending"

CallOutputTable ==
    /\ tState = "pending"
    /\ tLines' = outputTable(tExts, tBrief, tNotrunc, tWidth)
    /\ tState' = "done"
    /\ UNCHANGED <<tExts, tBrief, tNotrunc, tWidth>>
    /\ UNCHANGED <<latestVars, fetchVars, filterVars, kindVars, sortVars, optionVars, runVars>>

NextTable == CallOutputTable

SpecTable == InitTable /\ [][NextTable]_vars

----------------------------------------------------------------------------
(* Claims about the table *)

TableDone == tState = "done"

\* C18: the kind shown for a descriptor is javascript exactly when imports is
\* not empty, output exactly when imports is empty and outputs is not,
\* subcommand exactly when both are empty and subcommands is not, and none
\* exactly when all three are empty.
C18_DisplayKindPrecedence ==
    (TableDone /\ ~tBrief) =>
        \A i \in 1..Len(tExts) :
            LET e == tExts[i]
                typ == tLines[i + 1][3]
            IN /\ typ = <<"j", "s">> <=> e.imports # <<>>
               /\ typ = <<"o", "u", "t">> <=> (e.imports = <<>> /\ e.outputs # <<>>)
               /\ typ = <<"s", "u", "b">> <=>
                      (e.imports = <<>> /\ e.outputs = <<>> /\ e.subcommands # <<>>)
               /\ typ = EmptyStr <=>
                      (e.imports = <<>> /\ e.outputs = <<>> /\ e.subcommands = <<>>)

\* One row is shown as javascript though it has outputs and subcommands too,
\* another as output though it has subcommands.
C18_Witness ==
    /\ TableDone /\ ~tBrief
    /\ Len(tExts) = 2
    /\ tExts[1].imports # <<>> /\ tExts[1].outputs # <<>> /\ tExts[1].subcommands # <<>>
    /\ tLines[2][3] = <<"j", "s">>
    /\ tExts[2].imports = <<>> /\ tExts[2].outputs # <<>> /\ tExts[2].subcommands # <<>>
    /\ tLines[3][3] = <<"o", "u", "t">>

\* C19: every line of the table, the header included, is at most as wide as
\* the terminal, and a description longer than the description width is cut
\* to that width, its last three characters being "...".
C19_LinesFitTerminal ==
    (TableDone /\ ~tNotrunc) =>
        /\ \A n \in 1..Len(tLines) : LineWidth(tLines, n) <= tWidth
        /\ \A i \in 1..Len(tExts) :
               LET dw == descWidth(tExts, tBrief, tWidth)
                   full == tExts[i].description
                   cell == tLines[i + 1][Len(tLines[i + 1])]
               IN IF Len(full) > dw
                  THEN /\ Len(cell) = dw
                       /\ SubSeq(cell, dw - 2, dw) = dots
                       /\ SubSeq(cell, 1, dw - 3) = SubSeq(full, 1, dw - 3)
                  ELSE cell = full

----------------------------------------------------------------------------
(* The explore command: flag parsing, then run *)

\* One flag on the command line.
Flag(name, value) == [name |-> name, value |-> value]

\* The flags an invocation may carry: the two switches, and --type and --tier
\* with a valid value, an invalid one and the empty string.
RunFlags ==
    {Flag("json", "true"), Flag("brief", "true")}
    \cup {Flag("type", v) : v \in {kindJavaScript, "invalid", ""}}
    \cup {Flag("tier", v) : v \in {tierOfficial, "invalid", ""}}

MaxArgs == 2

\* The error the flag set reports when a flag's Set has failed.
InvalidArgument(f, err) ==
    [kind |-> "pflag: invalid argument", wraps |-> "",
     text |-> <<f.name, f.value>> \o err.text]

\* The value given is none of the values the flag allows.
InvalidValue(f) ==
    \/ f.name = "type" /\ f.value \notin {"javascript", "output", "subcommand"}
    \/ f.name = "tier" /\ f.value \notin {"official", "community"}

Init ==
    /\ IdleLatest /\ IdleFilter /\ IdleKind
    /\ IdleSort /\ IdleOptions /\ IdleTable
    /\ IdleFetch
    /\ args \in SeqsUpTo(RunFlags, MaxArgs)
    /\ invalidSeen = FALSE
    /\ opts = ZeroOptions
    /\ rPc = "parse"
    /\ fetches = 0
    /\ rendered = NoRender
    /\ rErr = NoErr

\* The flag set takes the next flag: a switch is set, a value goes through the
\* option's Set, whose error ends the invocation before RunE is called.
ParseFlag ==
    /\ rPc = "parse"
    /\ args # <<>>
    /\ LET f == Head(args)
           k == kindSet(opts.kind, f.value)
           t == tierSet(opts.tier, f.value)
       IN /\ args' = Tail(args)
          /\ invalidSeen' = (invalidSeen \/ InvalidValue(f))
          /\ CASE f.name = "json" ->
                    /\ opts' = [opts EXCEPT !.json = TRUE]
                    /\ UNCHANGED <<rPc, rErr>>
               [] f.name = "brief" ->
                    /\ opts' = [opts EXCEPT !.brief = TRUE]
                    /\ UNCHANGED <<rPc, rErr>>
               [] f.name = "type" ->
                    /\ opts' = [opts EXCEPT !.kind = k.value]
                    /\ IF k.err = NoErr THEN UNCHANGED <<rPc, rErr>>
                       ELSE rPc' = "usageError" /\ rErr' = InvalidArgument(f, k.err)
               [] f.name = "tier" ->
                    /\ opts' = [opts EXCEPT !.tier = t.value]
                    /\ IF t.err = NoErr THEN UNCHANGED <<rPc, rErr>>
                       ELSE rPc' = "usageError" /\ rErr' = InvalidArgument(f, t.err)
    /\ UNCHANGED <<fetches, rendered>>
    /\ UNCHANGED <<latestVars, fetchVars, filterVars, kindVars, sortVars, optionVars, tableVars>>

\* RunE calls run, which calls getDefaultExtensionCatalog(opts.gs.Ctx), that
\* is getExtensionCatalog(ctx, defaultExtensionCatalogURL).
Execute ==
    /\ rPc = "parse"
    /\ args = <<>>
    /\ rPc' = "fetch"
    /\ fetches' = fetches + 1
    /\ pc' = "NewRequest"
    /\ url' = defaultExtensionCatalogURL
    /\ UNCHANGED <<ctx, elapsed, resp, body, decoded, catalog, todo, ret>>
    /\ UNCHANGED <<args, invalidSeen, opts, rendered, rErr>>
    /\ UNCHANGED <<latestVars, filterVars, kindVars, sortVars, optionVars, tableVars>>

\* A run that goes on to the filter whatever the fetch returned.
RunCheckErr_ignoreError ==
    /\ rPc = "fetch"
    /\ pc = "returned"
    /\ rPc' = "filter"
    /\ UNCHANGED <<args, invalidSeen, opts, fetches, rendered, rErr>>
    /\ UNCHANGED <<latestVars, fetchVars, filterVars, kindVars, sortVars, optionVars, tableVars>>

\* if err != nil { return err }
RunCheckErr ==
    /\ rPc = "fetch"
    /\ pc = "returned"
    /\ IF ret.err # NoErr
       THEN rPc' = "failed" /\ rErr' = ret.err
       ELSE rPc' = "filter" /\ rErr' = rErr
    /\ UNCHANGED <<args, invalidSeen, opts, fetches, rendered>>
    /\ UNCHANGED <<latestVars, fetchVars, filterVars, kindVars, sortVars, optionVars, tableVars>>

\* extensions := filterExtensions(catalog, opts.kind, opts.tier), and the list
\* goes to outputJSON or to outputTable.
RunRender ==
    /\ rPc = "filter"
    /\ \E order \in Orders(DOMAIN ret.catalog.m) :
          LET r == filterExtensions(ret.catalog, opts.kind, opts.tier, order)
          IN IF r.panicked
             THEN rPc' = "panicked" /\ rendered' = rendered
             ELSE /\ rPc' = "done"
                  /\ rendered' =
                        [by |-> IF opts.json THEN "outputJSON" ELSE "outputTable",
                         list |-> r.out,
                         brief |-> ~opts.json /\ opts.brief]
    /\ UNCHANGED <<args, invalidSeen, opts, fetches, rErr>>
    /\ UNCHANGED <<latestVars, fetchVars, filterVars, kindVars, sortVars, optionVars, tableVars>>

Next ==
    \/ ParseFlag
    \/ Execute
    \/ Cancel
    \/ NewRequest
    \/ Do
    \/ Tick
    \/ ReceiveResponse
    \/ AbortExchange
    \/ CheckStatus
    \/ DecodeBody
    \/ Annotate
    \/ ReturnCatalog
    \/ RunCheckErr
    \/ RunRender

Spec == Init /\ [][Next]_vars

----------------------------------------------------------------------------
(* Claims about the command *)

\* The descriptors the renderer was handed, in the order it was handed them.
RenderedExts == [i \in 1..Len(rendered.list) |-> ret.catalog.m[rendered.list[i]]]

\* C11: the list handed to outputJSON or outputTable is the output of
\* filterExtensions in the order sortExtensions gives it (tier, then kind, then
\* module), whatever order the catalog map was visited in.
C11_RenderedListIsSorted ==
    rPc = "done" =>
        /\ rendered.by \in {"outputJSON", "outputTable"}
        /\ \A o \in Orders(DOMAIN ret.catalog.m) :
               Range(rendered.list) =
                   Range(filterExtensions(ret.catalog, opts.kind, opts.tier, o).out)
        /\ RenderedExts = sortExtensions(RenderedExts)

\* C15: an invocation in which --type or --tier was given a value that is not
\* one of the flag's values ends in the flag's error before run is entered:
\* the catalog is never fetched and nothing is rendered.
C15_InvalidFlagStopsBeforeRun ==
    invalidSeen =>
        /\ rPc = "usageError"
        /\ rErr # NoErr
        /\ fetches = 0
        /\ pc = "idle"
        /\ rendered = NoRender

\* --type javascript was accepted, then --tier with the empty string was
\* rejected, and no fetch was made.
C15_Witness ==
    /\ rPc = "usageError"
    /\ opts.kind = "javascript"
    /\ rErr = InvalidArgument(Flag("tier", ""), errInvalidTier)
    /\ fetches = 0
    /\ pc = "idle"

\* C16: run fetches at most once; when the fetch has returned an error, run
\* returns that error and no renderer is called; a renderer is called only
\* after the one fetch has returned a nil error.
C16_FetchFailureEndsRun ==
    /\ fetches <= 1
    /\ (Returned /\ ret.err # NoErr) =>
           /\ rPc \in {"fetch", "failed"}
           /\ rendered = NoRender
    /\ rPc = "failed" =>
           /\ Returned /\ ret.err # NoErr
           /\ rErr = ret.err
           /\ fetches = 1
    /\ rendered # NoRender =>
           /\ Returned /\ ret.err = NoErr
           /\ fetches = 1

\* The body of the 200 response was no JSON: run has returned the decoder's
\* error and nothing was rendered.
C16_Witness ==
    /\ rPc = "failed"
    /\ resp.code = 200
    /\ body = BodyText
    /\ rErr = ErrSyntax
    /\ rendered = NoRender
    /\ fetches = 1

\* C21: neither the annotation loop of getExtensionCatalog nor the loop of
\* filterExtensions meets a nil descriptor: the fetch and the run never end in
\* a nil dereference, and every value of a catalog the fetch returned is a
\* descriptor, whatever object the 200 response carried (one with a null value
\* included).
C21_NoNilDereference ==
    /\ pc # "panicked"
    /\ rPc # "panicked"
    /\ (Returned /\ ret.err = NoErr) =>
           \A k \in DOMAIN ret.catalog.m : ~ret.catalog.m[k].nil

\* C22: after sortExtensions every descriptor that extensionTier shows as
\* Official is before every descriptor that it shows as Community, a
\* descriptor whose tier is empty or some other string being shown as
\* Community.
C22_SortAgreesWithDisplayedTier ==
    Sorted =>
        \A i, j \in 1..Len(sList) :
            (extensionTier(sList[i]) = T_Official /\ extensionTier(sList[j]) = T_Community)
                => i < j

====
